---- MODULE Spec2Model ----
(***************************************************************************)
(* The IDE session lifecycle manager of Anubis                             *)
(* (src/api/anubis/views/public/ide.py).                                   *)
(*                                                                         *)
(* Every request is handled by a worker.  A handler is split where it      *)
(* touches shared state (the session store, the teardown queue, the poll   *)
(* cache), so that the handlers of concurrent requests interleave the way  *)
(* the non-transactional read-then-write sequences of the code do.         *)
(***************************************************************************)
EXTENDS Integers, Sequences, FiniteSets, TLC

VARIABLES
    sessions,        \* the TheiaSession table: a sequence, a session's id is its index
    submitted,       \* ids of the sessions submitted to the orchestration backend
    queue,           \* the teardown jobs enqueued by enqueue_ide_stop, oldest first
    cache,           \* the memoization store of theia_poll_ide: a set of entries, one per key
    ide_enabled,     \* Assignment.ide_enabled, per assignment
    starts_enabled,  \* the configuration read by assert_theia_sessions_enabled
    now,             \* datetime.now(), in seconds
    pc,              \* per worker: the handler step it is at
    req,             \* per worker: the request it handles, with the handler's locals
    resp             \* the response the last step sent, with its request; else NoResponse

vars == <<sessions, submitted, queue, cache, ide_enabled, starts_enabled, now, pc, req, resp>>

-----------------------------------------------------------------------------
(* Bounds of the model. *)

MaxSessions == 2
MaxTime == 2
MaxQueue == 2

Workers == {"w1", "w2"}
SessionIds == 1..MaxSessions

-----------------------------------------------------------------------------
(* The collaborators' records the handlers read. *)

Users == {"student", "ta"}

\* is_course_admin(assignment.course_id) for the current user
CourseAdmins == {"ta"}

is_course_admin(u, course_id) == u \in CourseAdmins

\* current_user.github_username is not None
GithubLinked == {"student"}

\* the time to live of a memoized theia_poll_ide result, in seconds
PollCacheTimeout == 1

\* timedelta(days=3 * 7), in seconds
GraceWindow == 3 * 7 * 24 * 60 * 60

AssignmentIds == {"hw1", "hw2", "hw3"}

\* hw1: released once now > 0, its grace window passes at now = 2, no repo, no
\*      configured network policy
\* hw2: always released, never past grace, repo required, configured policy
\* hw3: repo required, and no user has a repo for it
Assignments ==
    [a \in AssignmentIds |->
        CASE a = "hw1" ->
               [course_id |-> "cs1", theia_image_id |-> "img", release_date |-> 0,
                due_date |-> 2 - GraceWindow, github_repo_required |-> FALSE,
                theia_options |-> [autosave |-> "true",
                                   network_policy |-> "os-restricted"]]
          [] a = "hw2" ->
               [course_id |-> "cs1", theia_image_id |-> "img", release_date |-> -1,
                due_date |-> MaxTime + 1, github_repo_required |-> TRUE,
                theia_options |-> [resources |-> "large"]]
          [] a = "hw3" ->
               [course_id |-> "cs1", theia_image_id |-> "img", release_date |-> -1,
                due_date |-> MaxTime + 1, github_repo_required |-> TRUE,
                theia_options |-> [autosave |-> "true"]]]

\* the AssignmentRepo table
AssignmentRepos == {[owner_id |-> "student", assignment_id |-> "hw2", repo_url |-> "git://student/hw2"]}

\* THEIA_DEFAULT_OPTIONS['resources']
DefaultResources == "default"

\* dict.get(key, default)
OptionsGet(options, key, default) ==
    IF key \in DOMAIN options THEN options[key] ELSE default

-----------------------------------------------------------------------------
(* Values. *)

\* a nullable column: <<>> is NULL, <<v>> is v
None == <<>>
Some(v) == <<v>>

\* TheiaSession.data, the blob handed to the client; None when there is no session
SessionData(s) == [id |-> s.id, active |-> s.active, state |-> s.state]

NoData == [id |-> 0, active |-> FALSE, state |-> "None"]

\* success_response(data)
success_response(data) == [kind |-> "success", data |-> data]

\* a failed req_assert: the request ends with a client error carrying the message
assert_error(message) == [kind |-> "assert", message |-> message]

\* error_response(message)
error_response(message) == [kind |-> "error", message |-> message]

NoResponse == [kind |-> "none"]

NoRequest == [op |-> "none"]

-----------------------------------------------------------------------------
(* Queries on the session store. *)

Rows == {sessions[i] : i \in 1..Len(sessions)}

\* variant: the filter on active inverted
ActiveSessionQuery_Inactive(u, a) ==
    {s \in Rows : s.owner_id = u /\ s.assignment_id = a /\ ~s.active}

\* TheiaSession.query.filter(owner_id == u, assignment_id == a, active)
ActiveSessionQuery(u, a) ==
    {s \in Rows : s.owner_id = u /\ s.assignment_id = a /\ s.active}

\* TheiaSession.query.filter(owner_id == u, active == False)
\*     .order_by(created.desc()).limit(1).  A session's created is the time of
\* its insertion and ids are given in the order of insertion, so the row
\* created last is the row with the greatest id.
LastSessionQuery(u) ==
    LET inactive == {s \in Rows : s.owner_id = u /\ ~s.active}
    IN  {s \in inactive : \A t \in inactive : t.id <= s.id}

\* variant: the lookup scoped to active sessions
OwnedSessionQuery_ActiveOnly(sid, u) ==
    {s \in Rows : s.id = sid /\ s.owner_id = u /\ s.active}

\* variant: the filter on the owner left out
OwnedSessionQuery_AnyOwner(sid, u) ==
    {s \in Rows : s.id = sid}

\* TheiaSession.query.filter(id == sid, owner_id == u)
OwnedSessionQuery(sid, u) ==
    {s \in Rows : s.id = sid /\ s.owner_id = u}

\* AssignmentRepo.query.filter(owner_id == u, assignment_id == a)
RepoQuery(u, a) ==
    {r \in AssignmentRepos : r.owner_id = u /\ r.assignment_id = a}

-----------------------------------------------------------------------------
(* Steps shared by the handlers. *)

\* worker w is between two requests
Idle(w) == pc[w] = "ready"

\* the handler of worker w answers `request` with r
Respond(w, request, r) ==
    /\ pc' = [pc EXCEPT ![w] = "ready"]
    /\ req' = [req EXCEPT ![w] = NoRequest]
    /\ resp' = [worker |-> w, request |-> request] @@ r

\* the handler of worker w goes on to step `step`, its locals being `locals`
Goto(w, step, locals) ==
    /\ pc' = [pc EXCEPT ![w] = step]
    /\ req' = [req EXCEPT ![w] = locals]
    /\ resp' = NoResponse

Init ==
    /\ sessions = <<>>
    /\ submitted = {}
    /\ queue = <<>>
    /\ cache = {}
    /\ ide_enabled = AssignmentIds
    /\ starts_enabled \in BOOLEAN
    /\ now = 0
    /\ pc = [w \in Workers |-> "ready"]
    /\ req = [w \in Workers |-> NoRequest]
    /\ resp = NoResponse

\* time passes; a memoized result as old as the timeout is never read again
Tick ==
    /\ now < MaxTime
    /\ now' = now + 1
    /\ cache' = {e \in cache : now' < e.stored + PollCacheTimeout}
    /\ resp' = NoResponse
    /\ UNCHANGED <<sessions, submitted, queue, ide_enabled, starts_enabled, pc, req>>

-----------------------------------------------------------------------------
(* InitializeSession: public_ide_initialize. *)

\* request.args of the requests made
QueryArgs == {[lang |-> "en"], [autosave |-> "false", persistent_storage |-> "false"]}

\* request.args.get(key, default)
ArgsGet(args, key, default) ==
    IF key \in DOMAIN args THEN args[key] ELSE default

\* initialize_ide(...): the record of the new session, owned by the current user
initialize_ide(u, image_id, assignment_id, course_id, repo_url, playground, network_locked, network_policy, persistent_storage, autosave, resources, privileged, admin, credentials) ==
    [id |-> Len(sessions) + 1, owner_id |-> u, assignment_id |-> assignment_id,
     course_id |-> course_id, image_id |-> image_id, repo_url |-> repo_url,
     playground |-> playground, network_locked |-> network_locked,
     network_policy |-> network_policy, persistent_storage |-> persistent_storage,
     autosave |-> autosave, resources |-> resources, privileged |-> privileged,
     admin |-> admin, credentials |-> credentials,
     active |-> TRUE, state |-> "Initializing", ended |-> None]

\* variant: the active session looked up before the IDE feature check
public_ide_initialize_LookupFirst(w, u, a, args) ==
    /\ Idle(w)
    /\ LET request == [op |-> "initialize", user |-> u, assignment |-> a, args |-> args]
       IN  IF ActiveSessionQuery(u, a) # {}
           THEN \E active_session \in ActiveSessionQuery(u, a) :
                    Respond(w, request,
                            success_response([active |-> active_session.active,
                                              session |-> SessionData(active_session)]))
           ELSE IF a \notin ide_enabled
           THEN Respond(w, request, assert_error("IDEs are not enabled for this assignment"))
           ELSE Goto(w, "initialize_cooldown", request)
    /\ UNCHANGED <<sessions, submitted, queue, cache, ide_enabled, starts_enabled, now>>

\* lines 40-57: the IDE feature check and the existing active session
public_ide_initialize(w, u, a, args) ==
    /\ Idle(w)
    /\ LET request == [op |-> "initialize", user |-> u, assignment |-> a, args |-> args]
       IN  IF a \notin ide_enabled
           THEN Respond(w, request, assert_error("IDEs are not enabled for this assignment"))
           ELSE IF ActiveSessionQuery(u, a) # {}
           THEN \E active_session \in ActiveSessionQuery(u, a) :
                    Respond(w, request,
                            success_response([active |-> active_session.active,
                                              session |-> SessionData(active_session)]))
           ELSE Goto(w, "initialize_cooldown", request)
    /\ UNCHANGED <<sessions, submitted, queue, cache, ide_enabled, starts_enabled, now>>

\* get_config_int('THEIA_VOLUME_COOLDOWN_SECONDS', 1)
cooldown_seconds == 1

\* variant: the cooldown compared with <= instead of <
WithinCooldown_Inclusive(last_session) ==
    /\ last_session.persistent_storage
    /\ now - last_session.ended[1] <= cooldown_seconds

\* lines 66-73, for the session the query of line 60 gave
WithinCooldown(last_session) ==
    /\ last_session.persistent_storage
    /\ now - last_session.ended[1] < cooldown_seconds

\* lines 59-78: the cooldown of the last session's volume
initialize_cooldown(w) ==
    /\ pc[w] = "initialize_cooldown"
    /\ IF \E last_session \in LastSessionQuery(req[w].user) : WithinCooldown(last_session)
       THEN Respond(w, req[w], success_response(
                [status |-> "Please wait a few more seconds. Your last IDEs home volume is still unmounting.",
                 variant |-> "warning"]))
       ELSE Goto(w, "initialize_create", req[w])
    /\ UNCHANGED <<sessions, submitted, queue, cache, ide_enabled, starts_enabled, now>>

\* variant: the grace window compared with < instead of <=
InitializeRefusal_StrictGrace(u, a) ==
    LET assignment == Assignments[a]
        is_admin == is_course_admin(u, assignment.course_id)
    IN  IF ~starts_enabled
        THEN assert_error("Starting new IDEs is currently disabled")
        ELSE IF ~is_admin /\ ~(assignment.release_date < now)
        THEN assert_error("Assignment has not been released")
        ELSE IF ~is_admin /\ assignment.due_date + GraceWindow < now
        THEN error_response("Assignment due date passed over 3 weeks ago. IDEs are disabled.")
        ELSE IF assignment.github_repo_required /\ u \notin GithubLinked
        THEN assert_error("Please link your github account github account on profile page.")
        ELSE IF assignment.github_repo_required /\ RepoQuery(u, a) = {}
        THEN assert_error("Anubis can not find your assignment repo.")
        ELSE NoResponse

\* lines 80-127: what stops the request after the cooldown; NoResponse when
\* nothing does
InitializeRefusal(u, a) ==
    LET assignment == Assignments[a]
        is_admin == is_course_admin(u, assignment.course_id)
    IN  IF ~starts_enabled
        THEN assert_error("Starting new IDEs is currently disabled")
        ELSE IF ~is_admin /\ ~(assignment.release_date < now)
        THEN assert_error("Assignment has not been released")
        ELSE IF ~is_admin /\ assignment.due_date + GraceWindow <= now
        THEN error_response("Assignment due date passed over 3 weeks ago. IDEs are disabled.")
        ELSE IF assignment.github_repo_required /\ u \notin GithubLinked
        THEN assert_error("Please link your github account github account on profile page.")
        ELSE IF assignment.github_repo_required /\ RepoQuery(u, a) = {}
        THEN assert_error("Anubis can not find your assignment repo.")
        ELSE NoResponse

\* variant: the assignment's network policy given to admins too
NewSession_ConfiguredPolicy(u, a, args) ==
    LET assignment == Assignments[a]
        autosave == ArgsGet(args, "autosave", "true") = "true"
        persistent_storage == ArgsGet(args, "persistent_storage", "true") = "true"
        is_admin == is_course_admin(u, assignment.course_id)
        repo_url == IF assignment.github_repo_required
                    THEN (CHOOSE r \in RepoQuery(u, a) : TRUE).repo_url
                    ELSE ""
        options == assignment.theia_options
        network_policy == OptionsGet(options, "network_policy", "os-student")
        resources == OptionsGet(options, "resources", DefaultResources)
    IN  initialize_ide(u, assignment.theia_image_id, a, assignment.course_id, repo_url,
                       FALSE, ~is_admin, network_policy, persistent_storage, autosave,
                       resources, FALSE, is_admin, is_admin)

\* lines 129-162: the session the request creates
NewSession(u, a, args) ==
    LET assignment == Assignments[a]
        autosave == ArgsGet(args, "autosave", "true") = "true"
        persistent_storage == ArgsGet(args, "persistent_storage", "true") = "true"
        is_admin == is_course_admin(u, assignment.course_id)
        repo_url == IF assignment.github_repo_required
                    THEN (CHOOSE r \in RepoQuery(u, a) : TRUE).repo_url
                    ELSE ""
        options == assignment.theia_options
        network_policy == IF is_admin THEN "admin"
                          ELSE OptionsGet(options, "network_policy", "os-student")
        resources == OptionsGet(options, "resources", DefaultResources)
    IN  initialize_ide(u, assignment.theia_image_id, a, assignment.course_id, repo_url,
                       FALSE, ~is_admin, network_policy, persistent_storage, autosave,
                       resources, FALSE, is_admin, is_admin)

\* lines 80-168: the eligibility checks, then the creation of the session
initialize_create(w) ==
    /\ pc[w] = "initialize_create"
    /\ LET u == req[w].user
           a == req[w].assignment
           refusal == InitializeRefusal(u, a)
           session == NewSession(u, a, req[w].args)
       IN  IF refusal # NoResponse
           THEN /\ Respond(w, req[w], refusal)
                /\ UNCHANGED <<sessions, submitted>>
           ELSE /\ Len(sessions) < MaxSessions
                /\ sessions' = Append(sessions, session)
                /\ submitted' = submitted \cup {session.id}
                /\ Respond(w, req[w],
                           success_response([active |-> session.active,
                                             session |-> SessionData(session),
                                             status |-> "Session created"]))
    /\ UNCHANGED <<queue, cache, ide_enabled, starts_enabled, now>>

-----------------------------------------------------------------------------
(* AvailableCapacity and ActiveSessionFor: public_ide_available, *)
(* public_ide_active.                                             *)

\* the configured ceiling of concurrently active sessions
max_count == 1

\* get_n_available_sessions()
get_n_available_sessions ==
    <<Cardinality({s \in Rows : s.active}), max_count>>

public_ide_available(w) ==
    /\ Idle(w)
    /\ LET active_count == get_n_available_sessions[1]
           ceiling == get_n_available_sessions[2]
       IN  Respond(w, [op |-> "available"],
                   success_response([session_available |-> active_count < ceiling]))
    /\ UNCHANGED <<sessions, submitted, queue, cache, ide_enabled, starts_enabled, now>>

public_ide_active(w, u, a) ==
    /\ Idle(w)
    /\ LET request == [op |-> "active", user |-> u, assignment |-> a]
       IN  IF ActiveSessionQuery(u, a) = {}
           THEN Respond(w, request, success_response([active |-> FALSE]))
           ELSE \E session \in ActiveSessionQuery(u, a) :
                    Respond(w, request, success_response([active |-> TRUE,
                                                          session |-> SessionData(session)]))
    /\ UNCHANGED <<sessions, submitted, queue, cache, ide_enabled, starts_enabled, now>>

-----------------------------------------------------------------------------
(* StopSession: public_ide_stop. *)

\* the workers that have committed a stop and not yet enqueued its teardown
Enqueuing == {w \in Workers : pc[w] = "stop_enqueue"}

\* variant: the active flag flipped instead of cleared
MarkStopped_FlipsActive(s) ==
    [s EXCEPT !.active = ~s.active, !.ended = Some(now), !.state = "Ended"]

\* variant: the persistent volume released with the stop
MarkStopped_DropsStorage(s) ==
    [s EXCEPT !.active = FALSE, !.ended = Some(now), !.state = "Ended",
              !.persistent_storage = FALSE]

\* variant: the active flag left as it is
MarkStopped_KeepsActive(s) ==
    [s EXCEPT !.ended = Some(now), !.state = "Ended"]

\* variant: the end time left unset
MarkStopped_NoEnded(s) ==
    [s EXCEPT !.active = FALSE, !.state = "Ended"]

\* lines 246-249: the session marked as stopped
MarkStopped(s) ==
    [s EXCEPT !.active = FALSE, !.ended = Some(now), !.state = "Ended"]

\* variant: the newest session deleted when it is stopped
public_ide_stop_Deletes(w, u, sid) ==
    /\ Idle(w)
    /\ LET request == [op |-> "stop", user |-> u, sid |-> sid]
       IN  IF OwnedSessionQuery(sid, u) = {}
           THEN /\ Respond(w, request, assert_error("session does not exist"))
                /\ UNCHANGED sessions
           ELSE /\ Len(queue) + Cardinality(Enqueuing) < MaxQueue
                /\ sessions' = IF sid = Len(sessions)
                               THEN SubSeq(sessions, 1, Len(sessions) - 1)
                               ELSE [sessions EXCEPT ![sid] = MarkStopped(@)]
                /\ Goto(w, "stop_enqueue", request)
    /\ UNCHANGED <<submitted, queue, cache, ide_enabled, starts_enabled, now>>

\* variant: the session of that id marked as stopped before the owner is looked at
public_ide_stop_UpdateFirst(w, u, sid) ==
    /\ Idle(w)
    /\ LET request == [op |-> "stop", user |-> u, sid |-> sid]
       IN  IF OwnedSessionQuery(sid, u) = {}
           THEN /\ Respond(w, request, assert_error("session does not exist"))
                /\ sessions' = [i \in 1..Len(sessions) |->
                                  IF i = sid THEN MarkStopped(sessions[i]) ELSE sessions[i]]
           ELSE /\ Len(queue) + Cardinality(Enqueuing) < MaxQueue
                /\ sessions' = [sessions EXCEPT ![sid] = MarkStopped(@)]
                /\ Goto(w, "stop_enqueue", request)
    /\ UNCHANGED <<submitted, queue, cache, ide_enabled, starts_enabled, now>>

\* lines 237-252: the lookup by (id, owner) and the committed update
public_ide_stop(w, u, sid) ==
    /\ Idle(w)
    /\ LET request == [op |-> "stop", user |-> u, sid |-> sid]
       IN  IF OwnedSessionQuery(sid, u) = {}
           THEN /\ Respond(w, request, assert_error("session does not exist"))
                /\ UNCHANGED sessions
           ELSE /\ Len(queue) + Cardinality(Enqueuing) < MaxQueue
                /\ sessions' = [sessions EXCEPT ![sid] = MarkStopped(@)]
                /\ Goto(w, "stop_enqueue", request)
    /\ UNCHANGED <<submitted, queue, cache, ide_enabled, starts_enabled, now>>

\* line 255: enqueue_ide_stop(theia_session.id)
stop_enqueue(w) ==
    /\ pc[w] = "stop_enqueue"
    /\ queue' = Append(queue, req[w].sid)
    /\ Goto(w, "stop_cache", req[w])
    /\ UNCHANGED <<sessions, submitted, cache, ide_enabled, starts_enabled, now>>

\* cache.delete_memoized(theia_poll_ide, sid, u)
delete_memoized(sid, u) ==
    {e \in cache : ~(e.sid = sid /\ e.user = u)}

\* lines 257-266: the poll cache entry cleared, and the response
stop_cache(w) ==
    /\ pc[w] = "stop_cache"
    /\ cache' = delete_memoized(req[w].sid, req[w].user)
    /\ Respond(w, req[w], success_response([status |-> "Session stopped.",
                                            variant |-> "warning"]))
    /\ UNCHANGED <<sessions, submitted, queue, ide_enabled, starts_enabled, now>>

-----------------------------------------------------------------------------
(* PollSession: public_ide_poll over the memoized theia_poll_ide. *)

\* the live entry of the key (sid, u): an entry as old as the timeout is a miss
CacheGet(sid, u) ==
    {e \in cache : e.sid = sid /\ e.user = u /\ now < e.stored + PollCacheTimeout}

\* the entry of the key (sid, u) replaced by `value`, stored now
CacheSet(sid, u, value) ==
    delete_memoized(sid, u) \cup {[sid |-> sid, user |-> u, value |-> value, stored |-> now]}

\* theia_poll_ide(sid, u), not memoized: the owner's view of the session
theia_poll_ide(sid, u) ==
    IF OwnedSessionQuery(sid, u) = {}
    THEN NoData
    ELSE SessionData(CHOOSE s \in OwnedSessionQuery(sid, u) : TRUE)

NoStatus == "None"

\* variant: an ended session reported as loading
Loading_EndedLoads(session_state) == session_state \notin {"Running", "Failed"}

\* line 288
Loading(session_state) == session_state \notin {"Running", "Ended", "Failed"}

\* lines 292-296
StatusOf(session_state) ==
    CASE session_state = "Running" -> <<"Session is now ready.", "success">>
      [] session_state = "Failed" -> <<"Session failed to start. Please try again.", "error">>
      [] OTHER -> <<NoStatus, NoStatus>>

\* lines 283-306: the response for the (possibly cached) session data
PollResponse(session_data) ==
    IF session_data = NoData
    THEN assert_error("session does not exist")
    ELSE success_response([loading |-> Loading(session_data.state),
                           session |-> session_data,
                           status |-> StatusOf(session_data.state)[1],
                           variant |-> StatusOf(session_data.state)[2]])

\* line 281 on a cache hit, then lines 283-306; on a miss, the backend query
public_ide_poll(w, u, sid) ==
    /\ Idle(w)
    /\ LET request == [op |-> "poll", user |-> u, sid |-> sid]
       IN  IF CacheGet(sid, u) # {}
           THEN \E e \in CacheGet(sid, u) : Respond(w, request, PollResponse(e.value))
           ELSE Goto(w, "poll_fill", request @@ [session_data |-> theia_poll_ide(sid, u)])
    /\ UNCHANGED <<sessions, submitted, queue, cache, ide_enabled, starts_enabled, now>>

\* line 281 on a cache miss: the result memoized, then lines 283-306
poll_fill(w) ==
    /\ pc[w] = "poll_fill"
    /\ cache' = CacheSet(req[w].sid, req[w].user, req[w].session_data)
    /\ Respond(w, req[w], PollResponse(req[w].session_data))
    /\ UNCHANGED <<sessions, submitted, queue, ide_enabled, starts_enabled, now>>

-----------------------------------------------------------------------------
(* RedirectTarget: public_ide_redirect_url. *)

\* theia_redirect_url(theia_session.id, current_user.netid)
theia_redirect_url(sid, netid) == <<"ide", sid, netid>>

public_ide_redirect_url(w, u, sid) ==
    /\ Idle(w)
    /\ LET request == [op |-> "redirect", user |-> u, sid |-> sid]
       IN  IF OwnedSessionQuery(sid, u) = {}
           THEN Respond(w, request, assert_error("session does not exist"))
           ELSE Respond(w, request, success_response([redirect |-> theia_redirect_url(sid, u)]))
    /\ UNCHANGED <<sessions, submitted, queue, cache, ide_enabled, starts_enabled, now>>

-----------------------------------------------------------------------------
(* The environment of the manager. *)

BackendPhases == {"Running", "Failed"}

\* the orchestration backend reports the phase a converging session reached
BackendReport(sid, phase) ==
    /\ sid \in 1..Len(sessions)
    /\ sessions[sid].active
    /\ sessions[sid].state = "Initializing"
    /\ sessions' = [sessions EXCEPT ![sid].state = phase]
    /\ resp' = NoResponse
    /\ UNCHANGED <<submitted, queue, cache, ide_enabled, starts_enabled, now, pc, req>>

\* a course admin switches the IDE feature of an assignment
SetIdeEnabled(a) ==
    /\ ide_enabled' = IF a \in ide_enabled THEN ide_enabled \ {a} ELSE ide_enabled \cup {a}
    /\ resp' = NoResponse
    /\ UNCHANGED <<sessions, submitted, queue, cache, starts_enabled, now, pc, req>>

-----------------------------------------------------------------------------
(* The requests of the workers W. *)

\* InitializeSession, for the <<user, assignment, query arguments>> of R
InitializeRequests(W, R) ==
    \/ \E w \in W, r \in R : public_ide_initialize(w, r[1], r[2], r[3])
    \/ \E w \in W : initialize_cooldown(w)
    \/ \E w \in W : initialize_create(w)

\* StopSession by the users U
StopRequests(W, U) ==
    \/ \E w \in W, u \in U, sid \in SessionIds : public_ide_stop(w, u, sid)
    \/ \E w \in W : stop_enqueue(w)
    \/ \E w \in W : stop_cache(w)

\* PollSession by the users U
PollRequests(W, U) ==
    \/ \E w \in W, u \in U, sid \in SessionIds : public_ide_poll(w, u, sid)
    \/ \E w \in W : poll_fill(w)

\* AvailableCapacity, ActiveSessionFor and RedirectTarget by the users U
ReadRequests(W, U, A) ==
    \/ \E w \in W : public_ide_available(w)
    \/ \E w \in W, u \in U, a \in A : public_ide_active(w, u, a)
    \/ \E w \in W, u \in U, sid \in SessionIds : public_ide_redirect_url(w, u, sid)

DefaultArgs == {[lang |-> "en"]}

\* Every operation, one request at a time, for one assignment; the backend
\* reports phases and the IDE feature of the assignment is switched.
Next ==
    \/ Tick
    \/ InitializeRequests({"w1"}, Users \X {"hw2"} \X DefaultArgs)
    \/ StopRequests({"w1"}, Users)
    \/ PollRequests({"w1"}, {"student"})
    \/ ReadRequests({"w1"}, Users, {"hw2"})
    \/ \E sid \in SessionIds, phase \in BackendPhases : BackendReport(sid, phase)
    \/ SetIdeEnabled("hw2")

Spec == Init /\ [][Next]_vars

\* Admission: every user and every assignment, one request at a time; the
\* student also asks for sessions without persistent storage.
AdmissionRequests ==
    (Users \X AssignmentIds \X DefaultArgs) \cup ({"student"} \X {"hw2"} \X QueryArgs)

NextAdmission ==
    \/ Tick
    \/ InitializeRequests({"w1"}, AdmissionRequests)
    \/ StopRequests({"w1"}, Users)

SpecAdmission == Init /\ [][NextAdmission]_vars

\* Concurrent requests of one user for one assignment, within one second.
NextConcurrent ==
    \/ InitializeRequests(Workers, {"student"} \X {"hw2"} \X DefaultArgs)
    \/ StopRequests(Workers, {"student"})
    \/ PollRequests(Workers, {"student"})
    \/ ReadRequests(Workers, {"student"}, {"hw2"})
    \/ \E sid \in SessionIds, phase \in BackendPhases : BackendReport(sid, phase)

SpecConcurrent == Init /\ [][NextConcurrent]_vars

\* Rejections: every user and every assignment, one request at a time and
\* within one second, with polls and redirects of sessions that may not exist
\* or belong to another user, while the IDE feature of one assignment is
\* switched.
NextRejection ==
    \/ InitializeRequests({"w1"}, Users \X AssignmentIds \X DefaultArgs)
    \/ StopRequests({"w1"}, Users)
    \/ PollRequests({"w1"}, {"student"})
    \/ ReadRequests({"w1"}, {"student"}, {"hw1"})
    \/ SetIdeEnabled("hw1")

SpecRejection == Init /\ [][NextRejection]_vars

-----------------------------------------------------------------------------
(* The vocabulary of the properties: what a step did, read off the state    *)
(* before and after it.                                                     *)

\* the step sent a response of worker w
Answered(w) == resp' # NoResponse /\ resp'.worker = w

\* the step is the first of worker w's handling of an InitializeSession request
\* of user u for assignment a
InitializeBegun(w, u, a) ==
    /\ pc[w] = "ready"
    /\ \/ pc'[w] = "initialize_cooldown" /\ req'[w].user = u /\ req'[w].assignment = a
       \/ /\ pc'[w] = "ready" /\ Answered(w) /\ resp'.request.op = "initialize"
          /\ resp'.request.user = u /\ resp'.request.assignment = a

\* the step is the first of worker w's handling of StopSession(sid) by user u
StopBegun(w, u, sid) ==
    /\ pc[w] = "ready"
    /\ \/ pc'[w] = "stop_enqueue" /\ req'[w].user = u /\ req'[w].sid = sid
       \/ /\ pc'[w] = "ready" /\ Answered(w) /\ resp'.request.op = "stop"
          /\ resp'.request.user = u /\ resp'.request.sid = sid

\* the step is the first of worker w's handling of PollSession(sid) by user u
PollBegun(w, u, sid) ==
    /\ pc[w] = "ready"
    /\ \/ pc'[w] = "poll_fill" /\ req'[w].user = u /\ req'[w].sid = sid
       \/ /\ pc'[w] = "ready" /\ Answered(w) /\ resp'.request.op = "poll"
          /\ resp'.request.user = u /\ resp'.request.sid = sid

\* the step left the session store and the backend submissions as they were
NothingCreated == sessions' = sessions /\ submitted' = submitted

\* the sessions with active = true of user u for assignment a
ActiveSessionsOf(u, a) ==
    {i \in 1..Len(sessions) :
        sessions[i].active /\ sessions[i].owner_id = u /\ sessions[i].assignment_id = a}

\* a StopSession of session sid is between its commit and its cache invalidation
StopInProgress(sid) ==
    \E w \in Workers : pc[w] \in {"stop_enqueue", "stop_cache"} /\ req[w].sid = sid

-----------------------------------------------------------------------------
(* C1.  At most one session with active = true per (owner, assignment), in  *)
(* every reachable state, also when InitializeSession requests of one user  *)
(* for one assignment interleave.                                           *)

C1_OneActiveSessionPerOwnerAssignment ==
    \A u \in Users, a \in AssignmentIds : Cardinality(ActiveSessionsOf(u, a)) <= 1

-----------------------------------------------------------------------------
(* C2.  As claimed: whenever the user has an active session for assignment  *)
(* A, InitializeSession(A) answers with that session and creates nothing.   *)

\* the step answers worker w with an active session of u for a, as it is stored
ReturnsActiveSession(w, u, a) ==
    /\ Answered(w)
    /\ resp'.kind = "success"
    /\ DOMAIN resp'.data = {"active", "session"}
    /\ resp'.data.active
    /\ resp'.data.session.id \in ActiveSessionsOf(u, a)
    /\ resp'.data.session.state = sessions[resp'.data.session.id].state
    /\ NothingCreated

C2_ActiveSessionReturned ==
    [][\A w \in Workers, u \in Users, a \in AssignmentIds :
          InitializeBegun(w, u, a) /\ ActiveSessionsOf(u, a) # {}
              => ReturnsActiveSession(w, u, a)]_vars

(* C2, amended.  Whenever the user has an active session for assignment A   *)
(* and the IDE feature of A is enabled, InitializeSession(A) answers with   *)
(* that session, unchanged, creates no session record and submits nothing   *)
(* to the backend.                                                          *)
C2_ActiveSessionReturnedWhenIdeEnabled ==
    [][\A w \in Workers, u \in Users, a \in AssignmentIds :
          InitializeBegun(w, u, a) /\ ActiveSessionsOf(u, a) # {} /\ a \in ide_enabled
              => ReturnsActiveSession(w, u, a)]_vars

\* an InitializeSession request has just been answered with the stored active session
C2_Witness ==
    /\ resp # NoResponse
    /\ resp.kind = "success"
    /\ resp.request.op = "initialize"
    /\ DOMAIN resp.data = {"active", "session"}
    /\ resp.data.session.id \in ActiveSessionsOf(resp.request.user, resp.request.assignment)

-----------------------------------------------------------------------------
(* C3.  As claimed: a user whose most recent inactive session used          *)
(* persistent storage and ended less than cooldown_seconds ago gets a       *)
(* warning from InitializeSession, and no session is created.               *)

\* the inactive session of user u that was created last
MostRecentInactive(u) ==
    LET inactive == {i \in 1..Len(sessions) : ~sessions[i].active /\ sessions[i].owner_id = u}
    IN  {i \in inactive : \A j \in inactive : j <= i}

\* the most recent inactive session of u used persistent storage and ended less
\* than cooldown_seconds ago
InCooldown(u) ==
    \E i \in MostRecentInactive(u) :
        /\ sessions[i].persistent_storage
        /\ sessions[i].ended # <<>>
        /\ now - sessions[i].ended[1] < cooldown_seconds

\* the response is the "please wait" warning
IsCooldownWarning(r) ==
    /\ r.kind = "success"
    /\ DOMAIN r.data = {"status", "variant"}
    /\ r.data.variant = "warning"

\* every check of InitializeSession after the cooldown lets user u start an IDE
\* for assignment a
OtherwiseEligible(u, a) ==
    /\ starts_enabled
    /\ \/ u \in CourseAdmins
       \/ /\ Assignments[a].release_date < now
          /\ now < Assignments[a].due_date + GraceWindow
    /\ Assignments[a].github_repo_required =>
          /\ u \in GithubLinked
          /\ \E r \in AssignmentRepos : r.owner_id = u /\ r.assignment_id = a

\* the step created one session, of user u for assignment a, submitted it to
\* the backend and answered worker w with it
CreatedSession(w, u, a) ==
    /\ Len(sessions') = Len(sessions) + 1
    /\ \A i \in 1..Len(sessions) : sessions'[i] = sessions[i]
    /\ sessions'[Len(sessions')].owner_id = u
    /\ sessions'[Len(sessions')].assignment_id = a
    /\ sessions'[Len(sessions')].active
    /\ submitted' = submitted \cup {Len(sessions')}
    /\ Answered(w)
    /\ resp'.kind = "success"
    /\ resp'.data.status = "Session created"
    /\ resp'.data.session.id = Len(sessions')

C3_CooldownAlwaysWarns ==
    [][\A w \in Workers, u \in Users :
          Answered(w) /\ resp'.request.op = "initialize" /\ resp'.request.user = u
              /\ InCooldown(u)
          => IsCooldownWarning(resp') /\ NothingCreated]_vars

(* C3, amended.  When an InitializeSession request that has passed the      *)
(* IDE-feature check and found no active session for the assignment comes   *)
(* to the cooldown check: if the user's most recent inactive session used   *)
(* persistent storage and ended less than cooldown_seconds ago, the request *)
(* returns a warning status and creates no session; otherwise (elapsed >=   *)
(* cooldown_seconds) the request goes on, and if it is otherwise eligible   *)
(* it succeeds and creates a session.                                       *)
C3_CooldownCheck ==
    [][\A w \in Workers :
          /\ pc[w] = "initialize_cooldown" /\ pc'[w] # "initialize_cooldown"
                => IF InCooldown(req[w].user)
                   THEN Answered(w) /\ IsCooldownWarning(resp') /\ NothingCreated
                   ELSE pc'[w] = "initialize_create" /\ NothingCreated
          /\ pc[w] = "initialize_create" /\ pc'[w] # "initialize_create"
                /\ OtherwiseEligible(req[w].user, req[w].assignment)
                => CreatedSession(w, req[w].user, req[w].assignment)]_vars

\* a request has just been refused with the warning, within the cooldown of a
\* persistent session
C3_Witness ==
    /\ resp # NoResponse
    /\ resp.request.op = "initialize"
    /\ IsCooldownWarning(resp)
    /\ InCooldown(resp.request.user)

-----------------------------------------------------------------------------
(* C4.  Once a StopSession of the owner has completed, no later PollSession *)
(* is served a cached result from before the stop, also when a PollSession  *)
(* that missed the cache was in progress during the stop.                   *)

C4_NoPollServedFromBeforeStop ==
    [][\A w \in Workers, u \in Users, sid \in SessionIds :
          /\ PollBegun(w, u, sid)
          /\ Answered(w)
          /\ resp'.kind = "success"
          /\ sid <= Len(sessions)
          /\ ~sessions[sid].active
          /\ ~StopInProgress(sid)
          => ~resp'.data.session.active]_vars

-----------------------------------------------------------------------------
(* C5.  StopSession of a session that does not exist or that another user   *)
(* owns fails with the one not-found error and changes no session;          *)
(* StopSession by the owner sets active = false, state = "Ended" and        *)
(* ended = the time of the call, whatever the phase of the session.         *)

IsNotFound(r) == r.kind = "assert" /\ r.message = "session does not exist"

C5_Stop ==
    [][\A w \in Workers, u \in Users, sid \in SessionIds :
          StopBegun(w, u, sid)
          => IF sid > Len(sessions) \/ sessions[sid].owner_id # u
             THEN Answered(w) /\ IsNotFound(resp') /\ sessions' = sessions
             ELSE /\ ~sessions'[sid].active
                  /\ sessions'[sid].state = "Ended"
                  /\ sessions'[sid].ended = <<now>>
                  /\ \A i \in 1..Len(sessions) : i # sid => sessions'[i] = sessions[i]]_vars

\* the stop of another user's session has just been refused, after the owner
\* had stopped a session of their own
C5_Witness ==
    /\ resp # NoResponse
    /\ resp.request.op = "stop"
    /\ IsNotFound(resp)
    /\ resp.request.sid <= Len(sessions)
    /\ sessions[resp.request.sid].owner_id # resp.request.user
    /\ \E i \in 1..Len(sessions) :
           ~sessions[i].active /\ sessions[i].state = "Ended" /\ sessions[i].ended = <<now>>

-----------------------------------------------------------------------------
(* C6.  As claimed: for a non-admin user, InitializeSession on an           *)
(* assignment whose release time is not yet in the past fails with a        *)
(* precondition error, and on an assignment whose due time plus 21 days has *)
(* passed returns an error decline; in both cases nothing is created and    *)
(* nothing is submitted to the backend.                                     *)

NotReleased(a) == ~(Assignments[a].release_date < now)

PastGrace(a) == Assignments[a].due_date + GraceWindow <= now

C6_ClosedAssignmentAlwaysRefused ==
    [][\A w \in Workers, u \in Users \ CourseAdmins, a \in AssignmentIds :
          Answered(w) /\ resp'.request.op = "initialize" /\ resp'.request.user = u
              /\ resp'.request.assignment = a
          => /\ NotReleased(a) => resp'.kind = "assert" /\ NothingCreated
             /\ ~NotReleased(a) /\ PastGrace(a) => resp'.kind = "error" /\ NothingCreated]_vars

(* C6, amended.  For a non-admin user, an InitializeSession request that    *)
(* reaches the eligibility checks (the IDE feature is enabled for the       *)
(* assignment, the user has no active session for it, the cooldown does not *)
(* apply) while starting IDEs is enabled: on an assignment whose release    *)
(* time is not yet in the past it fails with a precondition error, and on a *)
(* released assignment whose due time plus 21 days has passed it returns an *)
(* error decline; in both cases no session is created and nothing is        *)
(* submitted to the backend.  Whatever check answers a request on such an   *)
(* assignment, no session is created for it.                                *)
C6_ClosedAssignmentRefusedAtEligibility ==
    [][\A w \in Workers :
          /\ pc[w] = "initialize_create" /\ pc'[w] # "initialize_create"
                /\ req[w].user \notin CourseAdmins /\ starts_enabled
                => /\ NotReleased(req[w].assignment)
                        => /\ Answered(w) /\ NothingCreated
                           /\ resp'.kind = "assert"
                           /\ resp'.message = "Assignment has not been released"
                   /\ ~NotReleased(req[w].assignment) /\ PastGrace(req[w].assignment)
                        => Answered(w) /\ NothingCreated /\ resp'.kind = "error"
          /\ \A u \in Users \ CourseAdmins, a \in AssignmentIds :
                Answered(w) /\ resp'.request.op = "initialize" /\ resp'.request.user = u
                    /\ resp'.request.assignment = a /\ (NotReleased(a) \/ PastGrace(a))
                => NothingCreated]_vars

\* a non-admin has just been declined at the very end of the grace window
C6_Witness ==
    /\ resp # NoResponse
    /\ resp.request.op = "initialize"
    /\ resp.request.user \notin CourseAdmins
    /\ resp.kind = "error"
    /\ now = Assignments[resp.request.assignment].due_date + GraceWindow

-----------------------------------------------------------------------------
(* C7.  An admin's request passes the release-date and grace-window checks; *)
(* every session of an admin has network policy "admin" whatever the        *)
(* assignment configures, admin = true, credentials and network_locked =    *)
(* false; every session of a non-admin has network_locked = true, admin =   *)
(* false, no credentials and the assignment's policy, "os-student" when it  *)
(* configures none; no session is privileged.                               *)

ConfiguredPolicy(a) ==
    IF "network_policy" \in DOMAIN Assignments[a].theia_options
    THEN Assignments[a].theia_options.network_policy
    ELSE "os-student"

SessionPrivileges(s) ==
    /\ ~s.privileged
    /\ IF s.owner_id \in CourseAdmins
       THEN /\ s.network_policy = "admin"
            /\ s.admin
            /\ s.credentials
            /\ ~s.network_locked
       ELSE /\ s.network_policy = ConfiguredPolicy(s.assignment_id)
            /\ ~s.admin
            /\ ~s.credentials
            /\ s.network_locked

\* what is left of the eligibility of an admin: starting enabled, and the
\* repository when the assignment requires one
AdminEligible(u, a) ==
    /\ starts_enabled
    /\ Assignments[a].github_repo_required =>
          /\ u \in GithubLinked
          /\ \E r \in AssignmentRepos : r.owner_id = u /\ r.assignment_id = a

C7_AdminBypassAndPrivileges ==
    [][/\ \A i \in 1..Len(sessions') : SessionPrivileges(sessions'[i])
       /\ \A w \in Workers :
             pc[w] = "initialize_create" /\ pc'[w] # "initialize_create"
                 /\ req[w].user \in CourseAdmins
                 /\ AdminEligible(req[w].user, req[w].assignment)
             => CreatedSession(w, req[w].user, req[w].assignment)]_vars

\* an admin holds a session of an assignment that is not released and that
\* configures a policy of its own, next to a session of a non-admin
C7_Witness ==
    /\ \E i \in 1..Len(sessions) :
          /\ sessions[i].owner_id \in CourseAdmins
          /\ sessions[i].active
          /\ NotReleased(sessions[i].assignment_id)
          /\ ConfiguredPolicy(sessions[i].assignment_id) = "os-restricted"
          /\ sessions[i].network_policy = "admin"
    /\ \E i \in 1..Len(sessions) : sessions[i].owner_id \notin CourseAdmins

-----------------------------------------------------------------------------
(* C8.  PollSession answers phase "Running" with a success-variant status   *)
(* and loading = false, "Failed" with an error-variant status and loading = *)
(* false, "Ended" with loading = false and no status, every other phase     *)
(* with loading = true and no status.                                       *)

C8_PollPresentation ==
    resp # NoResponse /\ resp.request.op = "poll" /\ resp.kind = "success"
    => LET phase == resp.data.session.state
           d == resp.data
       IN  /\ phase = "Running" => ~d.loading /\ d.status # "None" /\ d.variant = "success"
           /\ phase = "Failed" => ~d.loading /\ d.status # "None" /\ d.variant = "error"
           /\ phase = "Ended" => ~d.loading /\ d.status = "None" /\ d.variant = "None"
           /\ phase \notin {"Running", "Failed", "Ended"}
                 => d.loading /\ d.status = "None" /\ d.variant = "None"

\* a poll has just reported a session that was stopped
C8_Witness ==
    /\ resp # NoResponse
    /\ resp.request.op = "poll"
    /\ resp.kind = "success"
    /\ resp.data.session.state = "Ended"
    /\ ~resp.data.loading

-----------------------------------------------------------------------------
(* C9.  A PollSession for a (session, user) that has an entry younger than  *)
(* the TTL is answered with the payload of that entry and queries the       *)
(* backend no more; a PollSession without such an entry (the entry expired  *)
(* or was invalidated) queries the backend; and once a stop has invalidated *)
(* the entry of a session, no entry from before the stop is left to answer  *)
(* the next poll.                                                           *)

LiveEntries(sid, u) ==
    {e \in cache : e.sid = sid /\ e.user = u /\ now < e.stored + PollCacheTimeout}

\* no entry shows as active a session whose stop has completed
NoEntryFromBeforeStop ==
    \A e \in cache :
        e.sid \in 1..Len(sessions) /\ ~sessions[e.sid].active /\ ~StopInProgress(e.sid)
        => ~e.value.active

C9_PollCache ==
    [][/\ \A w \in Workers, u \in Users, sid \in SessionIds :
             PollBegun(w, u, sid)
             => IF LiveEntries(sid, u) # {}
                THEN /\ Answered(w)
                     /\ cache' = cache
                     /\ \E e \in LiveEntries(sid, u) :
                            IF e.value.id = 0
                            THEN resp'.kind = "assert"
                            ELSE resp'.kind = "success" /\ resp'.data.session = e.value
                ELSE pc'[w] = "poll_fill"
       /\ NoEntryFromBeforeStop']_vars

-----------------------------------------------------------------------------
(* C10.  In every reachable state and for every session, ended is set if    *)
(* and only if active = false.                                              *)

C10_EndedIffInactive ==
    \A i \in 1..Len(sessions) : (sessions[i].ended # <<>>) <=> ~sessions[i].active

\* a stopped session next to an active one
C10_Witness ==
    /\ \E i \in 1..Len(sessions) : ~sessions[i].active /\ sessions[i].ended = <<now>>
    /\ \E i \in 1..Len(sessions) : sessions[i].active /\ sessions[i].ended = <<>>

-----------------------------------------------------------------------------
(* C11.  A request that fails a validation or a precondition (IDE feature   *)
(* disabled, assignment not released, no linked GitHub identity or no       *)
(* repository when one is required, session not found or not owned in       *)
(* StopSession, RedirectTarget and PollSession) leaves the session store,   *)
(* the teardown queue and the backend submissions unchanged, in the step    *)
(* that rejects it and in every step of the request before it.              *)

StoresUnchanged == sessions' = sessions /\ queue' = queue /\ submitted' = submitted

C11_RejectionHasNoSideEffect ==
    [][\A w \in Workers :
          /\ Answered(w) /\ resp'.kind = "assert" => StoresUnchanged
          /\ pc'[w] \in {"initialize_cooldown", "initialize_create", "poll_fill"}
                => StoresUnchanged]_vars

\* a request has just been rejected for its missing repository, with a session
\* in the store, a teardown job in the queue and a submission made
C11_Witness ==
    /\ resp # NoResponse
    /\ resp.kind = "assert"
    /\ resp.message = "Anubis can not find your assignment repo."
    /\ Len(sessions) > 0
    /\ Len(queue) > 0
    /\ submitted # {}

-----------------------------------------------------------------------------
(* C12.  Both soft declines of InitializeSession (the cooldown still        *)
(* active, the grace window after the due date passed) are answered with a  *)
(* successful response that carries a status message and a warning or error *)
(* variant, not with an error response, and create no session.              *)

\* the step of worker w declines the request because of the cooldown
DeclinesForCooldown(w) ==
    /\ pc[w] = "initialize_cooldown" /\ pc'[w] # "initialize_cooldown"
    /\ InCooldown(req[w].user)

\* the step of worker w declines the request of a non-admin because the grace
\* window of the released assignment has passed
DeclinesForGrace(w) ==
    /\ pc[w] = "initialize_create" /\ pc'[w] # "initialize_create"
    /\ req[w].user \notin CourseAdmins
    /\ starts_enabled
    /\ ~NotReleased(req[w].assignment)
    /\ PastGrace(req[w].assignment)

IsSoftDecline(r) ==
    /\ r.kind = "success"
    /\ {"status", "variant"} \subseteq DOMAIN r.data
    /\ r.data.variant \in {"warning", "error"}

C12_SoftDeclinesAreSuccessResponses ==
    [][\A w \in Workers :
          DeclinesForCooldown(w) \/ DeclinesForGrace(w)
          => Answered(w) /\ IsSoftDecline(resp') /\ NothingCreated]_vars

-----------------------------------------------------------------------------
(* C13.  When the IDE feature of the assignment is not enabled,             *)
(* InitializeSession is rejected with a precondition error for every        *)
(* caller, admin or not, before any other check: no existing session is     *)
(* returned and no session is created.                                      *)

C13_IdeDisabledRejectsFirst ==
    [][\A w \in Workers, u \in Users, a \in AssignmentIds :
          InitializeBegun(w, u, a) /\ a \notin ide_enabled
          => /\ Answered(w)
             /\ resp'.kind = "assert"
             /\ resp'.message = "IDEs are not enabled for this assignment"
             /\ NothingCreated]_vars

\* an admin who holds an active session of the assignment has just been
\* rejected because its IDE feature is off
C13_Witness ==
    /\ resp # NoResponse
    /\ resp.request.op = "initialize"
    /\ resp.kind = "assert"
    /\ resp.message = "IDEs are not enabled for this assignment"
    /\ resp.request.user \in CourseAdmins
    /\ resp.request.assignment \notin ide_enabled
    /\ ActiveSessionsOf(resp.request.user, resp.request.assignment) # {}

-----------------------------------------------------------------------------
(* C14.  StopSession finds the session by id and owner, whatever its active *)
(* flag: a StopSession of the owner on a session that is already inactive   *)
(* succeeds, overwrites ended with the time of this call, and enqueues      *)
(* another teardown job.                                                    *)

C14_SecondStopRestamps ==
    [][\A w \in Workers :
          /\ \A u \in Users, sid \in SessionIds :
                StopBegun(w, u, sid) /\ sid <= Len(sessions)
                    /\ sessions[sid].owner_id = u /\ ~sessions[sid].active
                => /\ pc'[w] = "stop_enqueue"
                   /\ ~sessions'[sid].active
                   /\ sessions'[sid].ended = <<now>>
          /\ pc[w] = "stop_enqueue" /\ pc'[w] # "stop_enqueue"
                => queue' = Append(queue, req[w].sid) /\ pc'[w] = "stop_cache"
          /\ pc[w] = "stop_cache" /\ pc'[w] # "stop_cache"
                => /\ Answered(w)
                   /\ resp'.kind = "success"
                   /\ resp'.data.status = "Session stopped."]_vars

\* the second stop of one session has just succeeded: two teardown jobs of the
\* session are queued and ended is the present time
C14_Witness ==
    /\ resp # NoResponse
    /\ resp.request.op = "stop"
    /\ resp.kind = "success"
    /\ Len(queue) = 2
    /\ queue[1] = resp.request.sid
    /\ queue[2] = resp.request.sid
    /\ sessions[resp.request.sid].ended = <<now>>
    /\ now > 0

-----------------------------------------------------------------------------
(* C15.  The active flag of a session only goes from true to false, and     *)
(* only by StopSession: no step of any operation makes an inactive session  *)
(* active again.                                                            *)

C15_ActiveOnlyCleared ==
    [][\A i \in 1..Len(sessions) :
          /\ i <= Len(sessions')
          /\ ~sessions[i].active => ~sessions'[i].active
          /\ sessions[i].active /\ ~sessions'[i].active
                => \E w \in Workers : StopBegun(w, sessions[i].owner_id, i)]_vars

\* an inactive session has been stopped once more, and its owner holds a new
\* session of the same assignment
C15_Witness ==
    \E i, j \in 1..Len(sessions) :
        /\ i < j
        /\ sessions[i].owner_id = sessions[j].owner_id
        /\ sessions[i].assignment_id = sessions[j].assignment_id
        /\ ~sessions[i].active
        /\ sessions[j].active
        /\ Len(queue) = 2 /\ queue[1] = i /\ queue[2] = i

-----------------------------------------------------------------------------
(* C16.  No operation changes the configuration snapshot of a session once  *)
(* it is created: StopSession changes only active, state and ended of the   *)
(* session it stops and no other session; AvailableCapacity,                *)
(* ActiveSessionFor, PollSession and RedirectTarget change no session.      *)

Snapshot(s) ==
    <<s.id, s.owner_id, s.assignment_id, s.course_id, s.image_id, s.resources,
      s.network_policy, s.network_locked, s.repo_url, s.persistent_storage, s.autosave,
      s.privileged, s.admin, s.credentials, s.playground>>

C16_SnapshotFrozen ==
    [][/\ \A i \in 1..Len(sessions) :
             i <= Len(sessions') /\ Snapshot(sessions'[i]) = Snapshot(sessions[i])
       /\ \A w \in Workers, u \in Users, sid \in SessionIds :
             StopBegun(w, u, sid)
             => /\ Len(sessions') = Len(sessions)
                /\ \A i \in 1..Len(sessions) : i # sid => sessions'[i] = sessions[i]
       /\ \A w \in Workers :
             \/ pc[w] \in {"stop_enqueue", "stop_cache", "poll_fill"} /\ pc'[w] # pc[w]
             \/ pc'[w] = "poll_fill" /\ pc[w] # "poll_fill"
             \/ Answered(w) /\ resp'.request.op \in {"available", "active", "poll", "redirect"}
             => sessions' = sessions]_vars

\* a stopped session with its snapshot, next to a session that was left alone
C16_Witness ==
    \E i, j \in 1..Len(sessions) :
        /\ ~sessions[i].active
        /\ sessions[i].state = "Ended"
        /\ sessions[i].persistent_storage
        /\ sessions[i].network_locked
        /\ sessions[i].repo_url = "git://student/hw2"
        /\ sessions[j].active
        /\ sessions[j].state = "Running"

-----------------------------------------------------------------------------
(* C17.  Session records are never deleted: the ids in the store only grow, *)
(* so a stopped session stays in the store for later cooldown checks.       *)

C17_SessionsNeverDeleted ==
    [][/\ Len(sessions') >= Len(sessions)
       /\ \A i \in 1..Len(sessions) : sessions'[i].id = sessions[i].id]_vars

\* the store is full of stopped sessions, the last of them still the one the
\* cooldown check reads
C17_Witness ==
    /\ Len(sessions) = MaxSessions
    /\ \A i \in 1..Len(sessions) : ~sessions[i].active /\ sessions[i].ended # <<>>
    /\ \E u \in Users : InCooldown(u)

-----------------------------------------------------------------------------
(* C18.  Whenever some persistent-storage session of a user ended less than *)
(* cooldown_seconds ago, InitializeSession of that user creates no session: *)
(* the cooldown check does not let such a request pass.                     *)

\* some session of user u used persistent storage and ended less than
\* cooldown_seconds ago
VolumeDetaching(u) ==
    \E i \in 1..Len(sessions) :
        /\ sessions[i].owner_id = u
        /\ ~sessions[i].active
        /\ sessions[i].persistent_storage
        /\ sessions[i].ended # <<>>
        /\ now - sessions[i].ended[1] < cooldown_seconds

C18_CooldownNeverMissed ==
    [][\A w \in Workers :
          /\ pc[w] = "initialize_cooldown" /\ pc'[w] # "initialize_cooldown"
                /\ VolumeDetaching(req[w].user)
                => Answered(w) /\ IsCooldownWarning(resp') /\ NothingCreated
          /\ pc[w] = "initialize_create" /\ VolumeDetaching(req[w].user)
                => NothingCreated]_vars

-----------------------------------------------------------------------------
(* C19.  In every reachable state the number of sessions with active = true *)
(* is at most max_count: no InitializeSession creates a session at or above *)
(* the ceiling.                                                             *)

ActiveCount == Cardinality({i \in 1..Len(sessions) : sessions[i].active})

C19_CeilingRespected == ActiveCount <= max_count

-----------------------------------------------------------------------------
(* C20.  In StopSession the commit of active = false comes before the       *)
(* teardown enqueue, which comes before the invalidation of the poll cache: *)
(* no teardown job is queued for a session whose record is active, and each *)
(* successful StopSession enqueues exactly one job, for the session it      *)
(* stopped.                                                                 *)

\* the jobs of session sid in the queue q
JobsOf(q, sid) == Cardinality({k \in 1..Len(q) : q[k] = sid})

C20_StopOrder ==
    [][/\ \A k \in 1..Len(queue') : ~sessions'[queue'[k]].active
       /\ \A w \in Workers :
             /\ pc[w] = "ready" /\ pc'[w] = "stop_enqueue"
                   => /\ ~sessions'[req'[w].sid].active
                      /\ queue' = queue
                      /\ cache' = cache
             /\ pc[w] = "stop_enqueue" /\ pc'[w] # "stop_enqueue"
                   => /\ pc'[w] = "stop_cache"
                      /\ queue' = Append(queue, req[w].sid)
                      /\ sessions' = sessions
                      /\ cache' = cache
             /\ pc[w] = "stop_cache" /\ pc'[w] # "stop_cache"
                   => /\ Answered(w) /\ resp'.kind = "success"
                      /\ queue' = queue
                      /\ sessions' = sessions
                      /\ \A e \in cache' : ~(e.sid = req[w].sid /\ e.user = req[w].user)
       /\ queue' # queue
             => \E w \in Workers :
                    /\ pc[w] = "stop_enqueue" /\ pc'[w] = "stop_cache"
                    /\ queue' = Append(queue, req[w].sid)]_vars

\* two stops have succeeded and one job of each stopped session is queued,
\* while a poll cache entry of another key is kept
C20_Witness ==
    /\ resp # NoResponse
    /\ resp.request.op = "stop"
    /\ resp.kind = "success"
    /\ Len(queue) = 2
    /\ queue[1] # queue[2]
    /\ JobsOf(queue, resp.request.sid) = 1
    /\ \A k \in 1..Len(queue) : ~sessions[queue[k]].active
    /\ cache # {}

====
